---- MODULE Spec2Model ----
(***************************************************************************)
(* cozmo_fsm/worldmap.py: the WorldMap (handle or wall id -> world object), *)
(* the fusion of SDK detections into world coordinates, the inference of   *)
(* walls from marker landmarks, and the WallSpec registry.                 *)
(*                                                                         *)
(* Angles are counted in quarter turns (1 = pi/2), so that sin and cos are *)
(* exact; lengths are integers (mm).                                       *)
(***************************************************************************)
EXTENDS Integers, Sequences, FiniteSets, TLC

\* ------------------------------------------------------------ bounds
MaxLandmarks == 2

\* ------------------------------------------------------------ values
None == [kind |-> "None"]

\* math.pi, in quarter turns
pi == 2

\* math.cos / math.sin on multiples of pi/2
cos(a) == LET q == a % 4 IN IF q = 0 THEN 1 ELSE IF q = 2 THEN -1 ELSE 0
sin(a) == LET q == a % 4 IN IF q = 1 THEN 1 ELSE IF q = 3 THEN -1 ELSE 0

\* transform.wrap_angle: normalisation to (-pi, pi]
wrap_angle(a) == ((a + pi - 1) % (2 * pi)) - (pi - 1)

\* WorldMap.vision_z_fudge
vision_z_fudge == 10

\* ------------------------------------------------------------ the SDK side
\* robot.world.light_cubes: key -> LightCube handle
light_cubes == [k \in {1, 2} |-> IF k = 1 THEN "cube1" ELSE "cube2"]

CubeHandles == {light_cubes[k] : k \in DOMAIN light_cubes}

\* the CustomObject handles the SDK may report, and their object_type
CustomHandles == {"custom1", "custom2"}
object_type(h) == "CustomType00"

Handles == CubeHandles \cup CustomHandles

\* cozmo.util.Pose values a handle or the robot can carry
Pose(x, y, z, angle_z, origin_id) ==
    [kind |-> "Pose", x |-> x, y |-> y, z |-> z, angle_z |-> angle_z,
     origin_id |-> origin_id]

\* what the SDK can report for a handle: its pose (None before the first
\* sighting) and its is_visible flag
Detection(pose, is_visible) == [pose |-> pose, is_visible |-> is_visible]

Detections ==
    {Detection(None, FALSE),
     Detection(Pose(30, 0, 0, 1, 1), TRUE),
     Detection(Pose(30, 0, 0, 1, 1), FALSE),
     Detection(Pose(0, 20, 5, 2, 2), TRUE)}

\* the robot: its raw pose and the particle filter's pose (x, y, theta)
Robot(pose, pf) == [pose |-> pose, pf |-> pf]

RobotStates ==
    {Robot(Pose(0, 0, 0, 0, 1), <<100, 50, 0>>),
     Robot(Pose(10, 0, 0, 0, 1), <<100, 50, -1>>),
     Robot(Pose(0, 10, 0, 1, 2), <<0, 0, 1>>)}

\* Pose.is_comparable: both poses valid and of the same origin
is_comparable(p, q) ==
    p.origin_id >= 0 /\ q.origin_id >= 0 /\ p.origin_id = q.origin_id

\* Pose.__sub__: the position part of pose - robot.pose
PoseDiff(p, q) == [x |-> p.x - q.x, y |-> p.y - q.y, z |-> p.z - q.z]

\* ------------------------------------------------------------ the wall side
MarkerIds == {1, 2, 3}

\* a landmark estimate (mu, orient, sigma) of the sensor model, sigma unused
Estimates == {[x |-> 10, y |-> 0, orient |-> 0], [x |-> 40, y |-> 30, orient |-> 1]}

\* the argument lists WallSpec is constructed with
WallSpecArgs ==
    {[length |-> 200, height |-> 210, door_width |-> 75, door_height |-> 105,
      markers |-> (1 :> 20 @@ 2 :> 60)],
     [length |-> 100, height |-> 150, door_width |-> 50, door_height |-> 90,
      markers |-> (2 :> 10)],
     [length |-> 100, height |-> 210, door_width |-> 75, door_height |-> 105,
      markers |-> << >>]}

\* ------------------------------------------------------------ state
VARIABLES
    objects,          \* WorldMap.objects: key -> world object
    wall_marker_dict, \* the global registry: marker id -> WallSpec
    wall_specs,       \* the WallSpec objects that have been constructed
    landmarks,        \* sensor_model.landmarks, in insertion order
    sdk,              \* handle -> [pose, is_visible] as the SDK reports it
    robot,            \* robot.pose and particle_filter.pose
    last              \* the last call made and the exception it raised

vars == <<objects, wall_marker_dict, wall_specs, landmarks, sdk, robot, last>>

\* keys of WorldMap.objects: a wall id (an int) or an SDK handle (an object)
WallKey(id) == <<"int", id>>
HandleKey(h) == <<"obj", h>>

Call(op, raised) == [op |-> op, raised |-> raised]

\* dict assignment d[k] = v
Store(d, k, v) == [j \in DOMAIN d \cup {k} |-> IF j = k THEN v ELSE d[j]]

\* ------------------------------------------------------------ world objects
WorldObject(kind, id, x, y, z, is_visible) ==
    [kind |-> kind, id |-> id, x |-> x, y |-> y, z |-> z, obstacle |-> TRUE,
     is_visible |-> is_visible]

WallObj(id, x, y, theta, length, height, door_width, door_height) ==
    [WorldObject("WallObj", id, x, y, 0, FALSE) EXCEPT !.z = height \div 2]
    @@ [theta |-> theta, length |-> length, height |-> height,
        door_width |-> door_width, door_height |-> door_height]

LightCubeObj(sdk_obj, id) ==
    WorldObject("LightCubeObj", id, 0, 0, 0, sdk[sdk_obj].is_visible)
    @@ [sdk_obj |-> sdk_obj, theta |-> 0, size |-> <<44, 44, 44>>]

CustomCubeObj(sdk_obj, id) ==
    WorldObject("CustomCubeObj", id, 0, 0, 0, sdk[sdk_obj].is_visible)
    @@ [sdk_obj |-> sdk_obj, theta |-> 0, size |-> <<50, 50, 50>>]

\* ------------------------------------------------------------ fusion
\* update_coords adding the displacement to the stored position
update_coords_drifting(world_obj, sdk_obj) ==
    LET diff == [x |-> sdk[sdk_obj].pose.x - robot.pose.x,
                 y |-> sdk[sdk_obj].pose.y - robot.pose.y]
        orient_diff == wrap_angle(robot.pf[3] - robot.pose.angle_z)
        wx == diff.x * cos(orient_diff) + diff.y * sin(orient_diff)
        wy == diff.x * (-sin(orient_diff)) + diff.y * cos(orient_diff)
    IN  [world_obj EXCEPT
            !.x = world_obj.x + robot.pf[1] + wx,
            !.y = world_obj.y + robot.pf[2] + wy,
            !.z = sdk[sdk_obj].pose.z + vision_z_fudge,
            !.theta = wrap_angle(sdk[sdk_obj].pose.angle_z + orient_diff),
            !.is_visible = sdk[sdk_obj].is_visible]

\* update_coords with sin and cos exchanged in the rotation
update_coords_swapped(world_obj, sdk_obj) ==
    LET diff == [x |-> sdk[sdk_obj].pose.x - robot.pose.x,
                 y |-> sdk[sdk_obj].pose.y - robot.pose.y]
        orient_diff == wrap_angle(robot.pf[3] - robot.pose.angle_z)
        wx == diff.x * sin(orient_diff) + diff.y * cos(orient_diff)
        wy == diff.x * (-cos(orient_diff)) + diff.y * sin(orient_diff)
    IN  [world_obj EXCEPT
            !.x = robot.pf[1] + wx,
            !.y = robot.pf[2] + wy,
            !.z = sdk[sdk_obj].pose.z + vision_z_fudge,
            !.theta = wrap_angle(sdk[sdk_obj].pose.angle_z + orient_diff),
            !.is_visible = sdk[sdk_obj].is_visible]

\* WorldMap.update_coords: the world object with its coordinates recomputed
update_coords(world_obj, sdk_obj) ==
    LET diff == PoseDiff(sdk[sdk_obj].pose, robot.pose)
        dx == diff.x
        dy == diff.y
        rob_x == robot.pf[1]
        rob_y == robot.pf[2]
        rob_theta == robot.pf[3]
        orient_diff == wrap_angle(rob_theta - robot.pose.angle_z)
        osin == sin(orient_diff)
        ocos == cos(orient_diff)
        wx == dx * ocos + dy * osin
        wy == dx * (-osin) + dy * ocos
    IN  [world_obj EXCEPT
            !.x = rob_x + wx,
            !.y = rob_y + wy,
            !.z = sdk[sdk_obj].pose.z + vision_z_fudge,
            !.theta = wrap_angle(sdk[sdk_obj].pose.angle_z + orient_diff),
            !.is_visible = sdk[sdk_obj].is_visible]

\* the first key of light_cubes, whatever its value
cube_id_unfiltered(cube) ==
    CHOOSE k \in DOMAIN light_cubes : \A j \in DOMAIN light_cubes : k <= j

\* the id update_cube gives a new LightCubeObj: the first key of light_cubes
\* whose value is the cube
cube_id(cube) ==
    LET keys == {k \in DOMAIN light_cubes : light_cubes[k] = cube}
    IN  CHOOSE k \in keys : \A j \in keys : k <= j

\* update_cube dropping the entry of a cube it cannot locate
update_cube_in_forgetting(objs, cube) ==
    IF sdk[cube].pose = None \/ ~is_comparable(sdk[cube].pose, robot.pose)
    THEN [k \in DOMAIN objs \ {HandleKey(cube)} |-> objs[k]]
    ELSE LET world_obj == IF HandleKey(cube) \in DOMAIN objs
                          THEN objs[HandleKey(cube)]
                          ELSE LightCubeObj(cube, cube_id(cube))
         IN  Store(objs, HandleKey(cube), update_coords(world_obj, cube))

\* WorldMap.update_cube, as a function of the mapping
update_cube_in(objs, cube) ==
    IF sdk[cube].pose = None \/ ~is_comparable(sdk[cube].pose, robot.pose)
    THEN objs
    ELSE LET world_obj == IF HandleKey(cube) \in DOMAIN objs
                          THEN objs[HandleKey(cube)]
                          ELSE LightCubeObj(cube, cube_id(cube))
         IN  Store(objs, HandleKey(cube), update_coords(world_obj, cube))

\* WorldMap.update_custom_object: raises AttributeError on a pose of None
custom_object_raises(sdk_obj) == sdk[sdk_obj].pose = None

update_custom_object_in(objs, sdk_obj) ==
    IF custom_object_raises(sdk_obj) THEN objs
    ELSE IF ~is_comparable(sdk[sdk_obj].pose, robot.pose) THEN objs
    ELSE LET world_obj == IF HandleKey(sdk_obj) \in DOMAIN objs
                          THEN objs[HandleKey(sdk_obj)]
                          ELSE CustomCubeObj(sdk_obj, object_type(sdk_obj))
         IN  Store(objs, HandleKey(sdk_obj), update_coords(world_obj, sdk_obj))

update_cube(cube) ==
    /\ objects' = update_cube_in(objects, cube)
    /\ last' = Call("update_cube", "none")
    /\ UNCHANGED <<wall_marker_dict, wall_specs, landmarks, sdk, robot>>

update_custom_object(sdk_obj) ==
    /\ objects' = update_custom_object_in(objects, sdk_obj)
    /\ last' = Call("update_custom_object",
                    IF custom_object_raises(sdk_obj) THEN "AttributeError"
                    ELSE "none")
    /\ UNCHANGED <<wall_marker_dict, wall_specs, landmarks, sdk, robot>>

\* WorldMap.handle_object_observed, evt.obj a LightCube or a CustomObject
handle_object_observed(obj) ==
    /\ IF obj \in CubeHandles
       THEN objects' = update_cube_in(objects, obj)
       ELSE IF obj \in CustomHandles
       THEN objects' = update_custom_object_in(objects, obj)
       ELSE objects' = objects
    /\ last' = Call("handle_object_observed",
                    IF obj \in CustomHandles /\ custom_object_raises(obj)
                    THEN "AttributeError" ELSE "none")
    /\ UNCHANGED <<wall_marker_dict, wall_specs, landmarks, sdk, robot>>

\* ------------------------------------------------------------ walls
\* WallObj.__init__'s default door_width
default_door_width == 75

\* the markers generate_walls_from_markers collects for wall_id, in order
seen_markers(lms, wall_id) ==
    SelectSeq(lms,
              LAMBDA m : /\ m.id \in DOMAIN wall_marker_dict
                         /\ wall_marker_dict[m.id].id = wall_id)

\* infer_wall using the last marker of the group instead of the first
infer_wall_last_marker(id, markers) ==
    LET known == {i \in 1..Len(markers) : markers[i].id \in DOMAIN wall_marker_dict}
    IN  IF known = {} THEN None
        ELSE LET i == CHOOSE j \in known : \A k \in known : j >= k
                 wall_spec == wall_marker_dict[markers[i].id]
                 dist == (wall_spec.length \div 2) - wall_spec.markers[markers[i].id]
                 wall_orient == markers[i].spec.orient
             IN  WallObj(wall_spec.id,
                         markers[i].spec.x + dist * cos(wall_orient - pi \div 2),
                         markers[i].spec.y + dist * sin(wall_orient - pi \div 2),
                         wall_orient, wall_spec.length, wall_spec.height,
                         default_door_width, wall_spec.door_height)

\* infer_wall naming the wall after the marker it used
infer_wall_marker_id(id, markers) ==
    LET known == {i \in 1..Len(markers) : markers[i].id \in DOMAIN wall_marker_dict}
    IN  IF known = {} THEN None
        ELSE LET i == CHOOSE j \in known : \A k \in known : j <= k
                 wall_spec == wall_marker_dict[markers[i].id]
                 dist == (wall_spec.length \div 2) - wall_spec.markers[markers[i].id]
                 wall_orient == markers[i].spec.orient
             IN  WallObj(markers[i].id,
                         markers[i].spec.x + dist * cos(wall_orient - pi \div 2),
                         markers[i].spec.y + dist * sin(wall_orient - pi \div 2),
                         wall_orient, wall_spec.length, wall_spec.height,
                         default_door_width, wall_spec.door_height)

\* WorldMap.infer_wall: the wall of the first marker the registry knows
infer_wall(id, markers) ==
    LET known == {i \in 1..Len(markers) : markers[i].id \in DOMAIN wall_marker_dict}
    IN  IF known = {} THEN None
        ELSE LET i == CHOOSE j \in known : \A k \in known : j <= k
                 m_id == markers[i].id
                 m_spec == markers[i].spec
                 wall_spec == wall_marker_dict[m_id]
                 dist == (wall_spec.length \div 2) - wall_spec.markers[m_id]
                 wall_orient == m_spec.orient
                 wall_x == m_spec.x + dist * cos(wall_orient - pi \div 2)
                 wall_y == m_spec.y + dist * sin(wall_orient - pi \div 2)
             IN  WallObj(wall_spec.id, wall_x, wall_y, wall_orient,
                         wall_spec.length, wall_spec.height,
                         default_door_width, wall_spec.door_height)

\* the wall ids generate_walls_from_markers finds markers for
seen_wall_ids(lms) ==
    {wall_marker_dict[lms[i].id].id :
       i \in {j \in 1..Len(lms) : lms[j].id \in DOMAIN wall_marker_dict}}

\* WorldMap.generate_walls_from_markers, as a function of the mapping
generate_walls_from_markers(objs) ==
    LET keys == {WallKey(id) : id \in seen_wall_ids(landmarks)}
    IN  [k \in DOMAIN objs \cup keys |->
           IF k \in keys
           THEN infer_wall(k[2], seen_markers(landmarks, k[2]))
           ELSE objs[k]]

\* the loop of update_map over light_cubes.items(), from key k on
RECURSIVE update_cubes_from(_, _)
update_cubes_from(objs, k) ==
    IF k \notin DOMAIN light_cubes THEN objs
    ELSE update_cubes_from(update_cube_in(objs, light_cubes[k]), k + 1)

\* update_map without the loop over the light cubes
update_map_walls_only ==
    /\ objects' = generate_walls_from_markers(objects)
    /\ last' = Call("update_map", "none")
    /\ UNCHANGED <<wall_marker_dict, wall_specs, landmarks, sdk, robot>>

\* WorldMap.update_map
update_map ==
    /\ objects' = update_cubes_from(generate_walls_from_markers(objects), 1)
    /\ last' = Call("update_map", "none")
    /\ UNCHANGED <<wall_marker_dict, wall_specs, landmarks, sdk, robot>>

\* ------------------------------------------------------------ WallSpec
\* min with a default of 0 for an empty list
min_id_default(ids) ==
    IF ids = {} THEN [raised |-> "none", value |-> 0]
    ELSE [raised |-> "none", value |-> CHOOSE i \in ids : \A j \in ids : i <= j]

\* min(ids) of WallSpec.__init__: ValueError on an empty list
min_id(ids) ==
    IF ids = {} THEN [raised |-> "ValueError"]
    ELSE [raised |-> "none", value |-> CHOOSE i \in ids : \A j \in ids : i <= j]

\* WallSpec.__init__: the new WallSpec registers itself for each of its markers
WallSpec(args) ==
    LET ids == DOMAIN args.markers
        id == min_id(ids)
        self == [length |-> args.length, height |-> args.height,
                 door_width |-> args.door_width, door_height |-> args.door_height,
                 markers |-> args.markers, doorways |-> << >>, id |-> id.value]
    IN  IF id.raised # "none"
        THEN /\ last' = Call("WallSpec", id.raised)
             /\ UNCHANGED <<objects, wall_marker_dict, wall_specs, landmarks, sdk, robot>>
        ELSE /\ wall_marker_dict' =
                   [m \in DOMAIN wall_marker_dict \cup ids |->
                      IF m \in ids THEN self ELSE wall_marker_dict[m]]
             /\ wall_specs' = wall_specs \cup {self}
             /\ last' = Call("WallSpec", "none")
             /\ UNCHANGED <<objects, landmarks, sdk, robot>>

\* ------------------------------------------------------------ environment
\* the SDK reports a new detection of a handle
Observe(h, d) ==
    /\ sdk[h] # d
    /\ sdk' = [sdk EXCEPT ![h] = d]
    /\ UNCHANGED <<objects, wall_marker_dict, wall_specs, landmarks, robot, last>>

\* the robot moves, or the particle filter relocalises it
RobotMoves(r) ==
    /\ robot # r
    /\ robot' = r
    /\ UNCHANGED <<objects, wall_marker_dict, wall_specs, landmarks, sdk, last>>

\* the sensor model adds a landmark or revises its estimate
LandmarkSeen(id, est) ==
    LET at == {i \in 1..Len(landmarks) : landmarks[i].id = id}
    IN  /\ IF at = {}
           THEN /\ Len(landmarks) < MaxLandmarks
                /\ landmarks' = Append(landmarks, [id |-> id, spec |-> est])
           ELSE /\ \E i \in at : landmarks[i].spec # est
                /\ landmarks' = [i \in 1..Len(landmarks) |->
                                   IF i \in at THEN [id |-> id, spec |-> est]
                                   ELSE landmarks[i]]
        /\ UNCHANGED <<objects, wall_marker_dict, wall_specs, sdk, robot, last>>

\* ------------------------------------------------------------ specifications
Init ==
    /\ objects = << >>
    /\ wall_marker_dict = << >>
    /\ wall_specs = {}
    /\ landmarks = << >>
    /\ sdk = [h \in Handles |-> Detection(None, FALSE)]
    /\ robot = Robot(Pose(0, 0, 0, 0, 1), <<100, 50, 0>>)
    /\ last = Call("WorldMap", "none")

Calls ==
    \/ update_map
    \/ \E cube \in CubeHandles : update_cube(cube)
    \/ \E sdk_obj \in CustomHandles : update_custom_object(sdk_obj)
    \/ \E obj \in Handles : handle_object_observed(obj)

\* the fusion of cubes and custom objects, no walls configured
NextFusion ==
    \/ Calls
    \/ \E h \in {"cube1", "custom1"} : \E d \in Detections : Observe(h, d)
    \/ \E r \in RobotStates : RobotMoves(r)

SpecFusion == Init /\ [][NextFusion]_vars

\* the registry and the inference of walls, no object sighted
NextWalls ==
    \/ update_map
    \/ \E args \in WallSpecArgs : WallSpec(args)
    \/ \E id \in MarkerIds : \E est \in Estimates : LandmarkSeen(id, est)

SpecWalls == Init /\ [][NextWalls]_vars

\* walls, cubes and custom objects together, each with one estimate
Next ==
    \/ Calls
    \/ \E args \in WallSpecArgs : WallSpec(args)
    \/ \E h \in {"cube1", "cube2", "custom1"} :
         \E d \in {Detection(None, FALSE),
                   Detection(Pose(30, 0, 0, 1, 1), TRUE)} : Observe(h, d)
    \/ \E id \in MarkerIds : LandmarkSeen(id, [x |-> 10, y |-> 0, orient |-> 0])

Spec == Init /\ [][Next]_vars

\* ------------------------------------------------------------ properties
\* the handle's pose is absent or not comparable to the robot's
Unobservable(h) ==
    sdk[h].pose = None \/ ~is_comparable(sdk[h].pose, robot.pose)

\* the fields of a world object that fusion decides
Fused(e) == <<e.id, e.x, e.y, e.z, e.theta, e.is_visible>>

\* the world object one update_cube / update_custom_object of a map that
\* does not hold the handle yet leaves at its key
FusedCube(cube) == update_cube_in(<< >>, cube)[HandleKey(cube)]
FusedCustom(sdk_obj) == update_custom_object_in(<< >>, sdk_obj)[HandleKey(sdk_obj)]

\* C1: update_cube and update_custom_object, called on a handle whose pose
\* is None or not comparable to the robot's, raise nothing and leave the
\* mapping as it was.
C1_UnobservableIsSkipped ==
    [][\A h \in Handles :
         (/\ Unobservable(h)
          /\ \/ h \in CubeHandles /\ update_cube(h)
             \/ h \in CustomHandles /\ update_custom_object(h))
         => (last'.raised = "none" /\ objects' = objects)]_vars

\* C2: after update_map, every custom object with a pose comparable to the
\* robot's has an entry at its handle, its id the object type, its pose and
\* visibility fused from the current detection.
C2_UpdateFusesCustomObjects ==
    [][update_map =>
         \A h \in CustomHandles :
           ~Unobservable(h) =>
             /\ HandleKey(h) \in DOMAIN objects'
             /\ objects'[HandleKey(h)].id = object_type(h)
             /\ Fused(objects'[HandleKey(h)]) = Fused(FusedCustom(h))]_vars

\* C2, amended: after update_map, every light cube with a pose comparable to
\* the robot's has an entry at its handle, its id the cube's key in
\* light_cubes, its pose and visibility fused from the current detection;
\* the entries of custom objects are left as they were.
C2_UpdateFusesCubesOnly ==
    [][update_map =>
         /\ \A k \in DOMAIN light_cubes :
              ~Unobservable(light_cubes[k]) =>
                /\ HandleKey(light_cubes[k]) \in DOMAIN objects'
                /\ objects'[HandleKey(light_cubes[k])].id = k
                /\ Fused(objects'[HandleKey(light_cubes[k])])
                     = Fused(FusedCube(light_cubes[k]))
         /\ \A h \in CustomHandles :
              /\ HandleKey(h) \in DOMAIN objects' <=> HandleKey(h) \in DOMAIN objects
              /\ HandleKey(h) \in DOMAIN objects =>
                   objects'[HandleKey(h)] = objects[HandleKey(h)]]_vars

\* update_map ran last, fused a cube, and left out a custom object in view
C2_Witness ==
    /\ last.op = "update_map"
    /\ ~Unobservable("custom1") /\ HandleKey("custom1") \notin DOMAIN objects
    /\ ~Unobservable("cube1") /\ HandleKey("cube1") \in DOMAIN objects
    /\ objects[HandleKey("cube1")] = FusedCube("cube1")

\* C5: with the cube's detection and the robot's poses unchanged, each of
\* update_cube, handle_object_observed and update_map leaves one entry for
\* the cube, equal to what a single update_cube leaves, and once the entry
\* has that state no further step changes it.
C5_CubeFusionIdempotent ==
    [][\A cube \in CubeHandles :
         (sdk'[cube] = sdk[cube] /\ robot' = robot /\ ~Unobservable(cube)) =>
           /\ (update_cube(cube) \/ handle_object_observed(cube) \/ update_map) =>
                /\ HandleKey(cube) \in DOMAIN objects'
                /\ objects'[HandleKey(cube)] = FusedCube(cube)
                /\ Cardinality({k \in DOMAIN objects' :
                                  /\ objects'[k].kind = "LightCubeObj"
                                  /\ objects'[k].sdk_obj = cube}) = 1
           /\ (/\ HandleKey(cube) \in DOMAIN objects
               /\ objects[HandleKey(cube)] = FusedCube(cube)) =>
                /\ HandleKey(cube) \in DOMAIN objects'
                /\ objects'[HandleKey(cube)] = objects[HandleKey(cube)]]_vars

\* the event handler ran last, the headings differ by -pi/2, and the cube's
\* entry is the one a single update_cube leaves: (100, 70)
C5_Witness ==
    /\ last.op = "handle_object_observed"
    /\ ~Unobservable("cube1")
    /\ wrap_angle(robot.pf[3] - robot.pose.angle_z) # 0
    /\ HandleKey("cube1") \in DOMAIN objects
    /\ objects[HandleKey("cube1")] = FusedCube("cube1")
    /\ objects[HandleKey("cube1")].x = 100 /\ objects[HandleKey("cube1")].y = 70

\* C9: when the particle filter's heading equals the robot's raw heading,
\* fusion puts the object at the particle filter's position plus the
\* displacement pose - robot.pose, unrotated.
C9_NoRotationWhenHeadingsAgree ==
    [][\A h \in Handles :
         (/\ ~Unobservable(h)
          /\ wrap_angle(robot.pf[3] - robot.pose.angle_z) = 0
          /\ \/ h \in CubeHandles /\ (update_cube(h) \/ update_map)
             \/ h \in CustomHandles /\ update_custom_object(h)
             \/ handle_object_observed(h))
         => /\ objects'[HandleKey(h)].x = robot.pf[1] + (sdk[h].pose.x - robot.pose.x)
            /\ objects'[HandleKey(h)].y = robot.pf[2] + (sdk[h].pose.y - robot.pose.y)]_vars

\* robot at (100, 50), headings equal, cube at relative (30, 0, 0) heading
\* pi/2: the entry is at (130, 50, 10) heading pi/2
C9_Witness ==
    /\ last.op = "update_cube"
    /\ robot = Robot(Pose(0, 0, 0, 0, 1), <<100, 50, 0>>)
    /\ sdk["cube1"] = Detection(Pose(30, 0, 0, 1, 1), TRUE)
    /\ HandleKey("cube1") \in DOMAIN objects
    /\ Fused(objects[HandleKey("cube1")]) = <<1, 130, 50, 10, 1, TRUE>>

\* the index in lms of the first marker the registry resolves to wall_id
FirstUsable(lms, wall_id) ==
    CHOOSE i \in 1..Len(lms) :
      /\ lms[i].id \in DOMAIN wall_marker_dict
      /\ wall_marker_dict[lms[i].id].id = wall_id
      /\ \A j \in 1..(i - 1) :
           ~(/\ lms[j].id \in DOMAIN wall_marker_dict
             /\ wall_marker_dict[lms[j].id].id = wall_id)

WallPose(e) == <<e.x, e.y, e.theta>>

Insert(lms, p, m) == SubSeq(lms, 1, p - 1) \o <<m>> \o SubSeq(lms, p, Len(lms))

\* the landmark tables that differ from lms in the estimate of a marker that
\* is not the first of its wall, in a marker the registry does not know
\* (its id or its estimate), or by one more marker the registry does not know
LaterVariants(lms) ==
    LET known(i) == lms[i].id \in DOMAIN wall_marker_dict
        later == {i \in 1..Len(lms) :
                    known(i) /\ FirstUsable(lms, wall_marker_dict[lms[i].id].id) # i}
        unknown == {i \in 1..Len(lms) : ~known(i)}
        free == {u \in MarkerIds \ DOMAIN wall_marker_dict :
                   \A i \in 1..Len(lms) : lms[i].id # u}
    IN  {[lms EXCEPT ![i].spec = est] : i \in later, est \in Estimates}
        \cup {[lms EXCEPT ![i] = [id |-> u, spec |-> est]] :
                i \in unknown, u \in free \cup {lms[j].id : j \in unknown},
                est \in Estimates}
        \cup UNION {{Insert(lms, p, [id |-> u, spec |-> est]) :
                       p \in 1..(Len(lms) + 1), est \in Estimates} : u \in free}

\* C6: the pose update_map gives a wall is the pose inferred from the first
\* marker of its group alone; no other estimate of a later marker of the
\* group, and no marker the registry does not know, changes it.
C6_OneMarkerPerWall ==
    [][update_map =>
         \A w \in seen_wall_ids(landmarks) :
           /\ WallPose(objects'[WallKey(w)]) =
                WallPose(infer_wall(w, <<landmarks[FirstUsable(landmarks, w)]>>))
           /\ \A lms \in LaterVariants(landmarks) :
                /\ w \in seen_wall_ids(lms)
                /\ WallPose(infer_wall(w, seen_markers(lms, w))) =
                     WallPose(objects'[WallKey(w)])]_vars

\* update_map ran last on two markers of one wall with different estimates:
\* the wall sits where the first one puts it
C6_Witness ==
    /\ last.op = "update_map"
    /\ Len(landmarks) = 2
    /\ landmarks[1] = [id |-> 2, spec |-> [x |-> 10, y |-> 0, orient |-> 0]]
    /\ landmarks[2] = [id |-> 1, spec |-> [x |-> 40, y |-> 30, orient |-> 1]]
    /\ {1, 2} \subseteq DOMAIN wall_marker_dict
    /\ wall_marker_dict[1].id = 1 /\ wall_marker_dict[2].id = 1
    /\ WallKey(1) \in DOMAIN objects
    /\ WallPose(objects[WallKey(1)]) = <<10, -40, 0>>

\* C7: the wall update_map stores has the length, height, door width and
\* door height of the WallSpec it was inferred from.
C7_WallHasSpecGeometry ==
    [][update_map =>
         \A w \in seen_wall_ids(landmarks) :
           LET wall_spec == wall_marker_dict[landmarks[FirstUsable(landmarks, w)].id]
               wall == objects'[WallKey(w)]
           IN  /\ wall.length = wall_spec.length
               /\ wall.height = wall_spec.height
               /\ wall.door_width = wall_spec.door_width
               /\ wall.door_height = wall_spec.door_height]_vars

\* C8: constructing a WallSpec without markers raises, registers nothing and
\* leaves no WallSpec behind; every WallSpec that exists has its smallest
\* marker id as its id.
C8_EmptyWallSpecRejected ==
    [][/\ \A args \in WallSpecArgs :
            (DOMAIN args.markers = {} /\ WallSpec(args)) =>
              /\ last'.raised = "ValueError"
              /\ wall_marker_dict' = wall_marker_dict
              /\ wall_specs' = wall_specs
       /\ \A wall_spec \in wall_specs' :
            /\ wall_spec.id \in DOMAIN wall_spec.markers
            /\ \A m \in DOMAIN wall_spec.markers : wall_spec.id <= m]_vars

\* the construction of a WallSpec without markers was refused after another
\* WallSpec had registered itself
C8_Witness ==
    /\ last = Call("WallSpec", "ValueError")
    /\ wall_specs # {}
    /\ \A wall_spec \in wall_specs : DOMAIN wall_spec.markers # {}
    /\ DOMAIN wall_marker_dict # {}

\* C10: every entry at a wall id is a WallObj, never None, whose id is the
\* key it is stored under.
C10_WallStoredUnderItsId ==
    \A k \in DOMAIN objects :
      k[1] = "int" =>
        /\ objects[k] # None
        /\ objects[k].kind = "WallObj"
        /\ objects[k].id = k[2]

\* marker 2 was moved from wall 1 to wall 2 between two runs of update_map,
\* and both walls are in the map
C10_Witness ==
    /\ last.op = "update_map"
    /\ {WallKey(1), WallKey(2)} \subseteq DOMAIN objects
    /\ 2 \in DOMAIN wall_marker_dict /\ wall_marker_dict[2].id = 2
    /\ \E wall_spec \in wall_specs : wall_spec.id = 1 /\ 2 \in DOMAIN wall_spec.markers

\* C3: no step removes a key of the mapping; a call on an object with a
\* comparable pose leaves its key in the mapping; and a call on one object
\* changes no entry but the one at that object's key.
C3_KeysNeverRemoved ==
    [][/\ DOMAIN objects \subseteq DOMAIN objects'
       /\ \A h \in Handles :
            (\/ h \in CubeHandles /\ (update_cube(h) \/ update_map)
             \/ h \in CustomHandles /\ update_custom_object(h)
             \/ handle_object_observed(h))
            => /\ ~Unobservable(h) /\ last'.raised = "none" =>
                    HandleKey(h) \in DOMAIN objects'
               /\ ~update_map =>
                    \A k \in DOMAIN objects \ {HandleKey(h)} :
                      objects'[k] = objects[k]
       /\ update_map =>
            \A id \in seen_wall_ids(landmarks) : WallKey(id) \in DOMAIN objects']_vars

\* update_map ran last and the map still holds a cube, a custom object and a
\* wall it could not see in that run
C3_Witness ==
    /\ last.op = "update_map"
    /\ HandleKey("cube1") \in DOMAIN objects /\ sdk["cube1"].pose = None
    /\ HandleKey("custom1") \in DOMAIN objects /\ sdk["custom1"].pose = None
    /\ WallKey(1) \in DOMAIN objects /\ 1 \notin seen_wall_ids(landmarks)

\* the ids of two world objects are equal (an object type equals no int)
SameId(e, f) ==
    /\ (e.kind = "CustomCubeObj") = (f.kind = "CustomCubeObj")
    /\ e.id = f.id

\* C4: no two entries of the mapping hold world objects with the same id.
C4_IdsUnique ==
    \A k1 \in DOMAIN objects : \A k2 \in DOMAIN objects :
      k1 # k2 => ~SameId(objects[k1], objects[k2])

\* C4, amended: no two walls of the mapping have the same id, and no two
\* light cubes of the mapping have the same id.
C4_IdsUniquePerKind ==
    \A k1 \in DOMAIN objects : \A k2 \in DOMAIN objects :
      (/\ k1 # k2
       /\ objects[k1].kind = objects[k2].kind
       /\ objects[k1].kind \in {"WallObj", "LightCubeObj"})
      => objects[k1].id # objects[k2].id

\* two walls, two cubes and a custom object are in the map
C4_Witness ==
    /\ {WallKey(1), WallKey(2)} \subseteq DOMAIN objects
    /\ {HandleKey("cube1"), HandleKey("cube2"), HandleKey("custom1")}
         \subseteq DOMAIN objects
    /\ objects[HandleKey("cube1")].id = 1 /\ objects[HandleKey("cube2")].id = 2
    /\ objects[WallKey(1)].id = 1 /\ objects[WallKey(2)].id = 2

====
